---- MODULE Spec2Model ----
(***************************************************************************)
(* A model of the blog application in src/main.py: the three tables        *)
(* (users, blog_posts, comments) with the constraints their columns        *)
(* declare, the session cookie of each browser, and one action per route   *)
(* handler.  Every handler runs as one step (one transaction), except      *)
(* register, whose duplicate check (get_users) and insert (db_add) are     *)
(* two store round trips that other requests can interleave with.          *)
(* Templates, form widgets and the gravatar helper are not in src/ and     *)
(* are not modelled: a rendered page is its template's name.  The static   *)
(* routes about and contact read and write no state and are left out.      *)
(* Of the columns no handler branches on and no constraint reads (name,    *)
(* subtitle, date, img_url, body, comment text) a post's body stands for   *)
(* all.                                                                    *)
(***************************************************************************)
EXTENDS Integers, FiniteSets, Sequences, TLC

(* ---------------------------------------------------------------- bounds *)
MaxUsers == 2
MaxPosts == 2
MaxComments == 1

Clients == {"c1", "c2"}
Emails == {"alice@example.com", "bob@example.com"}
Passwords == {"pw1", "pw2"}
(* The password each person registers with; a login may try any password.  *)
Registrations ==
    {[email |-> "alice@example.com", password |-> "pw1"],
     [email |-> "bob@example.com", password |-> "pw2"]}
Salts == {"s1"}
Titles == {"Hello", "World"}
Bodies == {"text"}

UserIds == 1..MaxUsers
PostIds == 1..MaxPosts
CommentIds == 1..MaxComments

(* The id of the one administrator, and the absent values.                 *)
AdminId == 1
NoUser == 0
NoPost == 0
NoStr == "-"

VARIABLES users, posts, comments, session, pc, last

vars == <<users, posts, comments, session, pc, last>>

(* ------------------------------------------------------- password hasher *)
(* generate_password_hash(string, "pbkdf2:sha256", salt_length=16): the    *)
(* digest string carries the method, the salt and the derived key.  The    *)
(* key derivation is a one-way function of (secret, salt), written here    *)
(* as an opaque tagged tuple.                                              *)
Pbkdf2(secret, salt) == <<"dk", secret, salt>>

hash(string, salt) ==
    [method |-> "pbkdf2:sha256", salt |-> salt, dk |-> Pbkdf2(string, salt)]

(* A verification that compares the method only.                           *)
check_password_hash_AnySecret(pwhash, password) ==
    pwhash.method = "pbkdf2:sha256"

check_password_hash(pwhash, password) ==
    /\ pwhash.method = "pbkdf2:sha256"
    /\ pwhash.dk = Pbkdf2(password, pwhash.salt)

Digests == {hash(p, s) : p \in Passwords, s \in Salts}

(* ------------------------------------------------------------- the store *)
Max(S) == IF S = {} THEN 0 ELSE CHOOSE m \in S : \A x \in S : x <= m

UserEmails(us) == {u.email : u \in us}

(* Integer primary keys: a new row takes the id after the largest one.     *)
NewId(rows) == Max({r.id : r \in rows}) + 1

(* A users table whose email column carries no unique constraint.          *)
EmailConflict_Unenforced(us, email) == FALSE

(* User.email is unique=True: the INSERT of a row whose email is held      *)
(* already fails in the store with an IntegrityError.                      *)
EmailConflict(us, email) == email \in UserEmails(us)

(* BlogPost.title is unique=True: an INSERT, or an UPDATE of the row       *)
(* `self`, to a title another row holds fails with an IntegrityError.      *)
TitleConflict(ps, self, title) ==
    \E p \in ps : p.id # self /\ p.title = title

get_users == users

get_user_email(email) ==
    IF \E u \in users : u.email = email
    THEN CHOOSE u \in users : u.email = email
    ELSE [id |-> NoUser, email |-> NoStr, password |-> NoStr]

PostExists(post_id) == \E p \in posts : p.id = post_id
GetPost(post_id) == CHOOSE p \in posts : p.id = post_id

(* ---------------------------------------------------- session / identity *)
(* current_user: the Anonymous sentinel when the cookie holds no user id,  *)
(* else what the loader returns for the id in the cookie.                  *)
Anonymous == [kind |-> "anonymous", id |-> NoUser]

(* get_user(id) is db.get_or_404(User, id): the row, or abort(404).        *)
get_user(id) ==
    IF \E u \in users : u.id = id
    THEN [kind |-> "user", id |-> id]
    ELSE [kind |-> "abort404", id |-> id]

user_loader(user_id) == get_user(user_id)

current_user(c) ==
    IF session[c] = NoUser THEN Anonymous ELSE user_loader(session[c])

(* current_user.is_anonymous is a property of UserMixin and of the         *)
(* anonymous user (a bool); show_post calls it, and calling a bool raises  *)
(* TypeError, for an authenticated and for an anonymous principal alike.   *)
CallIsAnonymous(cu) == "TypeError"

(* A gate that lets every authenticated user through.                      *)
admin_only_AnyUser(cu) ==
    IF cu.kind = "abort404" THEN "NotFound:User"
    ELSE IF cu.kind = "anonymous" THEN "AttributeError"
    ELSE "pass"

(* admin_only's wrapper: current_user.id == 1.  The anonymous user has no  *)
(* attribute id, so the comparison raises AttributeError for it.           *)
admin_only(cu) ==
    IF cu.kind = "abort404" THEN "NotFound:User"
    ELSE IF cu.kind = "anonymous" THEN "AttributeError"
    ELSE IF cu.id = AdminId THEN "pass"
    ELSE "Forbidden"

(* login_required: the view runs for an authenticated principal; else      *)
(* login_manager.unauthorized(), which aborts with 401 when no login_view  *)
(* is configured (none is).                                                *)
login_required(cu) ==
    IF cu.kind = "abort404" THEN "NotFound:User"
    ELSE IF cu.kind = "anonymous" THEN "Unauthorized"
    ELSE "pass"

(* ------------------------------------------------------------- responses *)
Idle == [at |-> "idle"]

Req(op, valid, email, password, post_id, title, body) ==
    [op |-> op, valid |-> valid, email |-> email,
     password |-> password, post_id |-> post_id, title |-> title, body |-> body]

Get(op) == Req(op, FALSE, NoStr, NoStr, NoPost, NoStr, NoStr)

(* The exchange that answers req: principal is the user id in the cookie   *)
(* the request came with, cookie the user id in the cookie the browser     *)
(* holds after the response.                                               *)
Resp(req, principal, cookie, status, to, flash, raised) ==
    [req |-> req, principal |-> principal, cookie |-> cookie, status |-> status,
     to |-> to, flash |-> flash, raised |-> raised]

Render(req, c, template) == Resp(req, session[c], session[c], 200, template, FALSE, "none")
Redirect(req, c, endpoint) == Resp(req, session[c], session[c], 302, endpoint, FALSE, "none")
FlashRedirect(req, c, endpoint) ==
    Resp(req, session[c], session[c], 302, endpoint, TRUE, "none")
FlashRender(req, c, template) ==
    Resp(req, session[c], session[c], 200, template, TRUE, "none")
(* A redirect after login_user or logout_user changed the cookie.          *)
RedirectAs(req, c, id, endpoint) == Resp(req, session[c], id, 302, endpoint, FALSE, "none")

(* What Flask answers when the view raises: abort(n) is status n, any      *)
(* other exception is a 500.                                               *)
Raise(req, c, exc) ==
    Resp(req, session[c], session[c],
         CASE exc = "Forbidden" -> 403
           [] exc = "Unauthorized" -> 401
           [] exc \in {"NotFound:User", "NotFound:BlogPost"} -> 404
           [] OTHER -> 500,
         "error", FALSE, exc)

NoRequest == Resp(Get("none"), NoUser, NoUser, 0, NoStr, FALSE, "none")

(* login_user(user): the cookie now names the user (UserMixin.is_active    *)
(* is always true, so login_user never refuses).                           *)
login_user(c, id) == [session EXCEPT ![c] = id]

logout_user(c) == [session EXCEPT ![c] = NoUser]

(* ------------------------------------------------------------------ Init *)
Init ==
    /\ users = {}
    /\ posts = {}
    /\ comments = {}
    /\ session = [c \in Clients |-> NoUser]
    /\ pc = [c \in Clients |-> Idle]
    /\ last = NoRequest

(* -------------------------------------------------------------- register *)
(* A duplicate check that runs after the candidate joined the rows.        *)
RegisteredEmails_WithCandidate(candidate) ==
    {u.email : u \in get_users} \cup {candidate.email}

(* [user.email for user in get_users()]: the emails of the rows the store  *)
(* holds.  The candidate was constructed but not added to the session, so  *)
(* the query does not flush it and it is not among them.                   *)
RegisteredEmails(candidate) == {u.email : u \in get_users}

(* register, up to the duplicate check: an invalid or GET request renders  *)
(* the form; a held email flashes and redirects to login; else the         *)
(* handler goes on to db_add with the candidate it built.                  *)
RegisterCheck(c, valid, email, password, salt) ==
    LET req == Req("register", valid, email, password, NoPost, NoStr, NoStr)
        user == [email |-> email, password |-> hash(password, salt)]
    IN  /\ pc[c].at = "idle"
        /\ IF ~valid
           THEN /\ last' = Render(req, c, "register.jinja")
                /\ pc' = pc
           ELSE IF user.email \in RegisteredEmails(user)
           THEN /\ last' = FlashRedirect(req, c, "login")
                /\ pc' = pc
           ELSE /\ pc' = [pc EXCEPT ![c] = [at |-> "db_add", req |-> req, user |-> user]]
                /\ last' = last
        /\ UNCHANGED <<users, posts, comments, session>>

(* register, from db_add on: the commit inserts the row or fails on the    *)
(* unique email; register does not catch the failure.  After the insert    *)
(* login_user and the redirect to the post list.                           *)
RegisterInsert(c) ==
    /\ pc[c].at = "db_add"
    /\ LET req == pc[c].req
           user == pc[c].user
           id == NewId(users)
       IN  IF EmailConflict(users, user.email)
           THEN /\ last' = Raise(req, c, "IntegrityError")
                /\ UNCHANGED <<users, session>>
           ELSE /\ id <= MaxUsers
                /\ users' = users \cup
                       {[id |-> id, email |-> user.email, password |-> user.password]}
                /\ session' = login_user(c, id)
                /\ last' = RedirectAs(req, c, id, "get_all_posts")
    /\ pc' = [pc EXCEPT ![c] = Idle]
    /\ UNCHANGED <<posts, comments>>

(* ------------------------------------------------------- login / logout *)
Login(c, valid, email, password) ==
    LET req == Req("login", valid, email, password, NoPost, NoStr, NoStr)
        user == get_user_email(email)
    IN  /\ pc[c].at = "idle"
        /\ IF ~valid
           THEN /\ last' = Render(req, c, "login.jinja")
                /\ session' = session
           ELSE IF user.id = NoUser
           THEN /\ last' = FlashRender(req, c, "login.jinja")
                /\ session' = session
           ELSE IF check_password_hash(user.password, password)
           THEN /\ session' = login_user(c, user.id)
                /\ last' = RedirectAs(req, c, user.id, "get_all_posts")
           ELSE /\ last' = FlashRender(req, c, "login.jinja")
                /\ session' = session
        /\ UNCHANGED <<users, posts, comments, pc>>

Logout(c) ==
    LET req == Get("logout")
        gate == login_required(current_user(c))
    IN  /\ pc[c].at = "idle"
        /\ IF gate # "pass"
           THEN /\ last' = Raise(req, c, gate)
                /\ session' = session
           ELSE /\ session' = logout_user(c)
                /\ last' = RedirectAs(req, c, NoUser, "get_all_posts")
        /\ UNCHANGED <<users, posts, comments, pc>>

(* ----------------------------------------------------------- read route *)
GetAllPosts(c) ==
    /\ pc[c].at = "idle"
    /\ last' = Render(Get("get_all_posts"), c, "index.jinja")
    /\ UNCHANGED <<users, posts, comments, session, pc>>

(* ------------------------------------------------------------- show_post *)
(* show_post: 404 for an unknown post; a valid comment submission calls    *)
(* current_user.is_anonymous() before anything is stored; any other        *)
(* request renders the post.                                               *)
ShowPost(c, post_id, valid) ==
    LET req == Req("show_post", valid, NoStr, NoStr, post_id, NoStr, NoStr)
        cu == current_user(c)
        called == CallIsAnonymous(cu)
        id == NewId(comments)
    IN  /\ pc[c].at = "idle"
        /\ IF ~PostExists(post_id)
           THEN /\ last' = Raise(req, c, "NotFound:BlogPost")
                /\ comments' = comments
           ELSE IF ~valid
           THEN /\ last' = Render(req, c, "post.jinja")
                /\ comments' = comments
           ELSE IF cu.kind = "abort404"
           THEN /\ last' = Raise(req, c, "NotFound:User")
                /\ comments' = comments
           ELSE IF called = "TypeError"
           THEN /\ last' = Raise(req, c, "TypeError")
                /\ comments' = comments
           ELSE IF called = "True"
           THEN /\ last' = FlashRedirect(req, c, "login")
                /\ comments' = comments
           ELSE /\ id <= MaxComments
                /\ comments' = comments \cup
                       {[id |-> id, user_id |-> cu.id, post_id |-> post_id]}
                /\ last' = Render(req, c, "post.jinja")
        /\ UNCHANGED <<users, posts, session, pc>>

(* ---------------------------------------------------- the gated handlers *)
(* add_new_post: the gate, then on a valid submission the INSERT of a      *)
(* post whose author is the current principal; the commit's failure on a   *)
(* held title is not caught.                                               *)
AddNewPost(c, valid, title, body) ==
    LET req == Req("add_new_post", valid, NoStr, NoStr, NoPost, title, body)
        cu == current_user(c)
        gate == admin_only(cu)
        id == NewId(posts)
    IN  /\ pc[c].at = "idle"
        /\ IF gate # "pass"
           THEN /\ last' = Raise(req, c, gate)
                /\ posts' = posts
           ELSE IF ~valid
           THEN /\ last' = Render(req, c, "make-post.html")
                /\ posts' = posts
           ELSE IF TitleConflict(posts, NoPost, title)
           THEN /\ last' = Raise(req, c, "IntegrityError")
                /\ posts' = posts
           ELSE /\ id <= MaxPosts
                /\ posts' = posts \cup
                       {[id |-> id, title |-> title, body |-> body, user_id |-> cu.id]}
                /\ last' = Redirect(req, c, "get_all_posts")
        /\ UNCHANGED <<users, comments, session, pc>>

(* edit_post: the gate, 404 for an unknown post, then on a valid           *)
(* submission the UPDATE of the post's fields and of its author.           *)
EditPost(c, post_id, valid, title, body) ==
    LET req == Req("edit_post", valid, NoStr, NoStr, post_id, title, body)
        cu == current_user(c)
        gate == admin_only(cu)
    IN  /\ pc[c].at = "idle"
        /\ IF gate # "pass"
           THEN /\ last' = Raise(req, c, gate)
                /\ posts' = posts
           ELSE IF ~PostExists(post_id)
           THEN /\ last' = Raise(req, c, "NotFound:BlogPost")
                /\ posts' = posts
           ELSE IF ~valid
           THEN /\ last' = Render(req, c, "make-post.html")
                /\ posts' = posts
           ELSE IF TitleConflict(posts, post_id, title)
           THEN /\ last' = Raise(req, c, "IntegrityError")
                /\ posts' = posts
           ELSE /\ posts' = (posts \ {GetPost(post_id)}) \cup
                       {[id |-> post_id, title |-> title, body |-> body,
                         user_id |-> cu.id]}
                /\ last' = Redirect(req, c, "show_post")
        /\ UNCHANGED <<users, comments, session, pc>>

(* db.session.delete(post): the relationship BlogPost.comments declares    *)
(* no cascade, so the unit of work sets the post_id of the post's          *)
(* comments to NULL (the column is nullable) and deletes the post's row.   *)
DeleteComments(cs, post_id) ==
    {IF k.post_id = post_id THEN [k EXCEPT !.post_id = NoPost] ELSE k : k \in cs}

(* delete_post: the gate, 404 for an unknown post, then the delete.        *)
DeletePost(c, post_id) ==
    LET req == Req("delete_post", FALSE, NoStr, NoStr, post_id, NoStr, NoStr)
        gate == admin_only(current_user(c))
    IN  /\ pc[c].at = "idle"
        /\ IF gate # "pass"
           THEN /\ last' = Raise(req, c, gate)
                /\ UNCHANGED <<posts, comments>>
           ELSE IF ~PostExists(post_id)
           THEN /\ last' = Raise(req, c, "NotFound:BlogPost")
                /\ UNCHANGED <<posts, comments>>
           ELSE /\ posts' = posts \ {GetPost(post_id)}
                /\ comments' = DeleteComments(comments, post_id)
                /\ last' = Redirect(req, c, "get_all_posts")
        /\ UNCHANGED <<users, session, pc>>

(* ------------------------------------------------------------------ Next *)
(* The requests a browser sends.  A request that is not a valid form       *)
(* submission (a GET, or a POST the form rejects) carries no form data.    *)
(* A post id in a URL is the id of a post of the store or an id no post    *)
(* has.                                                                    *)
Form(valid, S) == IF valid THEN S ELSE {NoStr}
UrlPostIds == {p.id : p \in posts} \cup {NewId(posts)}

Next ==
    \E c \in Clients :
        \/ \E valid \in BOOLEAN :
              \E form \in IF valid THEN Registrations
                                   ELSE {[email |-> NoStr, password |-> NoStr]},
                 salt \in Salts :
                 RegisterCheck(c, valid, form.email, form.password, salt)
        \/ RegisterInsert(c)
        \/ \E valid \in BOOLEAN :
              \E email \in Form(valid, Emails), password \in Form(valid, Passwords) :
                 Login(c, valid, email, password)
        \/ Logout(c)
        \/ GetAllPosts(c)
        \/ \E post_id \in UrlPostIds, valid \in BOOLEAN : ShowPost(c, post_id, valid)
        \/ \E valid \in BOOLEAN :
              \E title \in Form(valid, Titles), body \in Form(valid, Bodies) :
                 AddNewPost(c, valid, title, body)
        \/ \E post_id \in UrlPostIds, valid \in BOOLEAN :
              \E title \in Form(valid, Titles), body \in Form(valid, Bodies) :
                 EditPost(c, post_id, valid, title, body)
        \/ \E post_id \in UrlPostIds : DeletePost(c, post_id)

Spec == Init /\ [][Next]_vars

(* --------------------------------------------- start on an existing store *)
(* The database is the file or server SQL_PATH names and db.create_all()   *)
(* creates only the tables that are missing, so the application starts on  *)
(* whatever rows the store holds; the session cookie is kept by the        *)
(* browser and signed with FLASK_KEY, so a cookie issued before the store  *)
(* was last recreated still names its user id.  The rows are any the       *)
(* schema admits with every reference resolved: user ids 1..n with         *)
(* distinct emails, posts with distinct ids and titles written by a user,  *)
(* comments by a user on a post.                                           *)
UserRows ==
    {[id |-> i, email |-> r.email, password |-> hash(r.password, s)] :
        i \in UserIds, r \in Registrations, s \in Salts}

PostRows(us) ==
    {[id |-> i, title |-> t, body |-> b, user_id |-> u.id] :
        i \in PostIds, t \in Titles, b \in Bodies, u \in us}

CommentRows(us, ps) ==
    {[id |-> i, user_id |-> u.id, post_id |-> p.id] :
        i \in CommentIds, u \in us, p \in ps}

Keyed(rows) ==
    /\ \A r1, r2 \in rows : r1.id = r2.id => r1 = r2
    /\ {r.id : r \in rows} = 1..Cardinality(rows)

InitPersisted ==
    /\ users \in {us \in SUBSET UserRows :
                    /\ Keyed(us)
                    /\ \A u1, u2 \in us : u1.email = u2.email => u1 = u2}
    /\ posts \in {ps \in SUBSET PostRows(users) :
                    /\ \A p1, p2 \in ps : p1.id = p2.id => p1 = p2
                    /\ \A p1, p2 \in ps : p1.title = p2.title => p1 = p2}
    /\ comments \in {cs \in SUBSET CommentRows(users, posts) : Keyed(cs)}
    /\ session \in [Clients -> {NoUser} \cup UserIds]
    /\ pc = [c \in Clients |-> Idle]
    /\ last = NoRequest

SpecPersisted == InitPersisted /\ [][Next]_vars

(* ================================================================ claims *)
GatedOps == {"add_new_post", "edit_post", "delete_post"}

(* The password the person with this email registers with.                 *)
RegisteredWith(email, password) ==
    [email |-> email, password |-> password] \in Registrations

(* C1: the posts change only in a new-post, edit-post or delete request    *)
(* whose principal is the user with id 1, and such a request by any other  *)
(* principal (another user, or anonymous) leaves users, posts and          *)
(* comments unchanged.                                                     *)
C1_OnlyAdminMutatesPosts ==
    [][/\ posts' # posts =>
            (last'.req.op \in GatedOps /\ last'.principal = AdminId)
       /\ (last'.req.op \in GatedOps /\ last'.principal # AdminId) =>
            UNCHANGED <<users, posts, comments>>]_vars

(* C1 witness: a logged-in user other than the admin asked to delete an    *)
(* existing post and the post is still there.                              *)
C1_Witness ==
    /\ last.req.op = "delete_post"
    /\ last.principal \notin {NoUser, AdminId}
    /\ PostExists(last.req.post_id)

(* C2: every new-post, edit-post or delete request of a principal that is  *)
(* not the admin (another user, or anonymous) is answered with 403.        *)
C2_NonAdminGets403 ==
    (last.req.op \in GatedOps /\ last.principal # AdminId) => last.status = 403

(* C3: no two User rows hold the same email, whether the registrations     *)
(* ran one after the other or interleaved between check and insert.        *)
C3_EmailsUnique ==
    \A u1, u2 \in users : u1.email = u2.email => u1 = u2

(* C3 witness: a registration passed the duplicate check and then met the  *)
(* same email at its insert (the other registration won the race).         *)
C3_Witness ==
    /\ last.req.op = "register"
    /\ last.raised = "IntegrityError"
    /\ \E u \in users : u.email = last.req.email

(* C4: a uniqueness violation of the store is answered with a flash        *)
(* message and a redirect, never with the store's raw exception.           *)
C4_ConflictIsFlashAndRedirect ==
    last.raised = "IntegrityError" => (last.status = 302 /\ last.flash)

(* C5 as stated: a valid login with the registered password is a redirect  *)
(* with the session of that user; with a wrong password or an unknown      *)
(* email it fails and no session is left, whatever the session before.     *)
C5_FailedLoginLeavesNoSession ==
    (last.req.op = "login" /\ last.req.valid) =>
        IF \E u \in users : u.email = last.req.email
                              /\ RegisteredWith(u.email, last.req.password)
        THEN /\ last.status = 302
             /\ \E u \in users : u.email = last.req.email /\ last.cookie = u.id
        ELSE /\ last.status = 200
             /\ last.cookie = NoUser

(* C5 amended: a valid login with the registered password is a redirect    *)
(* with the session of that user; with a wrong password or an unknown      *)
(* email it fails and the session is what it was before (none for an       *)
(* anonymous browser, the earlier user's for a logged-in one).             *)
C5_FailedLoginKeepsSession ==
    (last.req.op = "login" /\ last.req.valid) =>
        IF \E u \in users : u.email = last.req.email
                              /\ RegisteredWith(u.email, last.req.password)
        THEN /\ last.status = 302
             /\ \E u \in users : u.email = last.req.email /\ last.cookie = u.id
        ELSE /\ last.status = 200
             /\ last.flash
             /\ last.cookie = last.principal

(* C5 witness: a logged-in browser sent a registered email with a wrong    *)
(* password.                                                               *)
C5_Witness ==
    /\ last.req.op = "login"
    /\ last.req.valid
    /\ last.principal # NoUser
    /\ \E u \in users : u.email = last.req.email
                          /\ ~RegisteredWith(u.email, last.req.password)

(* C6: a valid comment submission on an existing post is, for an           *)
(* anonymous submitter, a redirect to login; for an authenticated one the  *)
(* post is rendered again and a comment by the submitter on that post is   *)
(* in the store.                                                           *)
C6_CommentSubmission ==
    (last.req.op = "show_post" /\ last.req.valid /\ PostExists(last.req.post_id)) =>
        IF last.principal = NoUser
        THEN last.status = 302 /\ last.to = "login"
        ELSE /\ last.status = 200
             /\ last.to = "post.jinja"
             /\ \E k \in comments : /\ k.user_id = last.principal
                                    /\ k.post_id = last.req.post_id

(* C7: a registration whose email no user holds when it is inserted adds   *)
(* exactly one user, with that email and, for its password, a digest (a    *)
(* value of the hasher, not the secret) that verifies the password, logs   *)
(* that user in and redirects to                                           *)
(* the post list; and a registration is turned away as a duplicate only    *)
(* when a user of the store holds its email.                               *)
C7_RegisterFresh ==
    [][/\ \A c \in Clients :
            (/\ pc[c].at = "db_add"
             /\ pc'[c].at = "idle"
             /\ pc[c].req.email \notin UserEmails(users)) =>
                \E u \in users' :
                    /\ u \notin users
                    /\ users' = users \cup {u}
                    /\ u.email = pc[c].req.email
                    /\ u.password \in Digests
                    /\ check_password_hash(u.password, pc[c].req.password)
                    /\ session'[c] = u.id
                    /\ last'.cookie = u.id
                    /\ last'.status = 302
                    /\ last'.to = "get_all_posts"
       /\ (last'.req.op = "register" /\ last'.to = "login") =>
            last'.req.email \in UserEmails(users)]_vars

(* C7 witness: a second person registered with a fresh email and is        *)
(* logged in as the new user.                                              *)
C7_Witness ==
    /\ last.req.op = "register"
    /\ last.status = 302
    /\ last.to = "get_all_posts"
    /\ Cardinality(users) = 2
    /\ \E u \in users : u.email = last.req.email /\ u.id = last.cookie

(* C8: a request whose cookie names a user id no User row has is served    *)
(* as an anonymous request; the user lookup of the loader does not abort   *)
(* it.                                                                     *)
C8_StaleSessionIsAnonymous ==
    last.raised # "NotFound:User"

(* C9: a logout request without a session is a redirect to the login page  *)
(* and leaves the session as it was.                                       *)
C9_AnonymousLogoutRedirectsToLogin ==
    (last.req.op = "logout" /\ last.principal = NoUser) =>
        (last.status = 302 /\ last.to = "login" /\ last.cookie = NoUser)

====
